---- MODULE Spec2Model ----
(***************************************************************************)
(* Model of the Ready Set Roll 5e patching layer (src/utils/patching.js)   *)
(* and of the QuickRoll chat-card builder (QuickRoll class).               *)
(*                                                                         *)
(* JavaScript primitives are modelled as string tokens ("undefined",       *)
(* "null", "true", "false", ...); objects are records with a `kind` field  *)
(* that says whether the reference is undefined, null or a real object.    *)
(***************************************************************************)
EXTENDS Integers, Sequences, FiniteSets, TLC

VARIABLES
    settings,     \* SettingsUtility: the three boolean "quick roll enabled" settings
    registered,   \* libWrapper: the set of wrappers registered so far
    patchRan,     \* which PatchingUtility methods have run
    lastCall      \* the call of a patched host method in progress: inputs and outcome

patchVars == <<settings, registered, patchRan, lastCall>>

VARIABLES
    fields,       \* QuickRoll.fields: the roll fields, in render order
    templates,    \* QuickRoll.templates: the fragments rendered so far
    processed,    \* QuickRoll.processed
    currentId,    \* QuickRoll._currentId
    messageId,    \* QuickRoll.messageId (0 while undefined)
    messages,     \* the host's chat messages created by ChatMessage.create
    calls,        \* the asynchronous toMessage/_render invocations, by start order
    renderLog,    \* the invocations of RenderUtility.renderFromField
    flags         \* what the last direct _getFlags call returned

quickRollVars ==
    <<fields, templates, processed, currentId, messageId, messages, calls,
      renderLog, flags>>

VARIABLES
    paramObjects,  \* the parameter records alive; the first is defaultParams
    chargeObjects, \* the useCharge objects alive, as the sets of their keys
    rolls,         \* the QuickRolls constructed so far, by their params record
    lastParams     \* the params given to the newest QuickRoll, while untouched

paramVars == <<paramObjects, chargeObjects, rolls, lastParams>>

vars == <<patchVars, quickRollVars, paramVars>>

----------------------------------------------------------------------------
(* JavaScript value helpers                                                *)

\* A value that is null or undefined (what ?. and ?? test for).
Nullish(v) == v \in {"undefined", "null"}

\* JavaScript truthiness of a primitive token.
Truthy(v) == v \notin {"undefined", "null", "false", "TypeError"}

\* The boolean b as a token.
Bool(b) == IF b THEN "true" ELSE "false"

\* a ?? b
Coalesce(a, b) == IF Nullish(a) THEN b ELSE a

\* a && b (b is only evaluated when a is truthy)
AndAlso(a, b) == IF Truthy(a) THEN b ELSE a

\* An event reference that is undefined.
NoEvent == [kind |-> "undefined", altKey |-> "undefined", origin |-> "none"]

\* Event objects: a MouseEvent/KeyboardEvent carries a boolean altKey, any
\* other Event has no altKey property at all.
EventObjects(origin) ==
    [kind : {"object"}, altKey : {"undefined", "true", "false"}, origin : {origin}]

\* window.event: undefined outside of an event handler.
WindowEvents == {NoEvent} \cup EventObjects("window")

\* options.event as the caller can give it: the key is missing ("absent"),
\* present with the value undefined, or an event object.
CallerEvents ==
    {[kind |-> "absent", altKey |-> "undefined", origin |-> "none"], NoEvent}
        \cup EventObjects("caller")

\* The options argument when it is not an object.
NoOptions(k) ==
    [kind |-> k, chatMessage |-> "undefined", vanilla |-> "undefined",
     event |-> [kind |-> "absent", altKey |-> "undefined", origin |-> "none"]]

\* The options bags a caller can pass: undefined, null, or an object with
\* any of the keys chatMessage, vanilla and event.
OptionsSet ==
    {NoOptions("undefined"), NoOptions("null")} \cup
    [kind : {"object"},
     chatMessage : {"undefined", "null", "true", "false"},
     vanilla : {"undefined", "true", "false"},
     event : CallerEvents]

Callers == {"doc1", "doc2"}
Ids == {"acr", "dex"}

----------------------------------------------------------------------------
(* PatchingUtility: registration                                           *)

SettingsSet ==
    [QUICK_SKILL_ENABLED : BOOLEAN, QUICK_ABILITY_ENABLED : BOOLEAN,
     QUICK_ITEM_ENABLED : BOOLEAN]

Registration(target, fn, mode) == [target |-> target, fn |-> fn, mode |-> mode]

\* Mutation of ActorRegistrations: the skill wrapper is registered
\* whatever the setting.
ActorRegistrationsUngated(s) ==
    {Registration("Actor.rollSkill", "_actorRollSkill", "MIXED")}
    \cup (IF s.QUICK_ABILITY_ENABLED
          THEN {Registration("Actor.rollAbilityTest", "_actorRollAbilityTest", "MIXED"),
                Registration("Actor.rollAbilitySave", "_actorRollAbilitySave", "MIXED")}
          ELSE {})

\* The libWrapper.register calls made by patchActors under settings s.
ActorRegistrations(s) ==
    (IF s.QUICK_SKILL_ENABLED
     THEN {Registration("Actor.rollSkill", "_actorRollSkill", "MIXED")}
     ELSE {})
    \cup (IF s.QUICK_ABILITY_ENABLED
          THEN {Registration("Actor.rollAbilityTest", "_actorRollAbilityTest", "MIXED"),
                Registration("Actor.rollAbilitySave", "_actorRollAbilitySave", "MIXED")}
          ELSE {})

\* The libWrapper.register calls made by patchItems under settings s.
ItemRegistrations(s) ==
    IF s.QUICK_ITEM_ENABLED
    THEN {Registration("Item.use", "_itemUse", "MIXED")}
    ELSE {}

\* The libWrapper.register calls made by patchItemSheets under settings s.
ItemSheetRegistrations(s) ==
    IF s.QUICK_ITEM_ENABLED
    THEN {Registration("ItemSheet._onChangeTab", "_onChangeTab", "OVERRIDE")}
    ELSE {}

\* Whether some wrapper is registered for the host method `target`.
IsRegistered(target) == \E r \in registered : r.target = target

patchActors ==
    /\ "patchActors" \notin patchRan
    /\ registered' = registered \cup ActorRegistrations(settings)
    /\ patchRan' = patchRan \cup {"patchActors"}
    /\ UNCHANGED <<settings, lastCall, quickRollVars, paramVars>>

patchItems ==
    /\ "patchItems" \notin patchRan
    /\ registered' = registered \cup ItemRegistrations(settings)
    /\ patchRan' = patchRan \cup {"patchItems"}
    /\ UNCHANGED <<settings, lastCall, quickRollVars, paramVars>>

patchItemSheets ==
    /\ "patchItemSheets" \notin patchRan
    /\ registered' = registered \cup ItemSheetRegistrations(settings)
    /\ patchRan' = patchRan \cup {"patchItemSheets"}
    /\ UNCHANGED <<settings, lastCall, quickRollVars, paramVars>>

----------------------------------------------------------------------------
(* Wrapper dispatch                                                        *)

\* The value produced by (and the record of) one invocation made by a
\* wrapper: of the original host method (by = "original") or of a
\* collaborator routine.  Collaborator results are opaque, so the value a
\* call returns is denoted by the call itself; roll holds the roll argument,
\* if the routine takes one.
Call(by, caller, id, options, ignore, roll) ==
    [by |-> by, caller |-> caller, id |-> id, options |-> options,
     ignore |-> ignore, roll |-> roll]

\* options?.chatMessage
ChatMessageOf(options) ==
    IF Nullish(options.kind) THEN "undefined" ELSE options.chatMessage

\* options?.vanilla
VanillaOf(options) ==
    IF Nullish(options.kind) THEN "undefined" ELSE options.vanilla

\* options?.event
EventOf(options) ==
    IF Nullish(options.kind) \/ options.event.kind = "absent"
    THEN NoEvent
    ELSE options.event

\* Mutation of AltKeyOf: plain property access, which throws a TypeError on
\* an undefined event.
AltKeyOfStrict(event) ==
    IF Nullish(event.kind) THEN "TypeError" ELSE event.altKey

\* event?.altKey
AltKeyOf(event) ==
    IF Nullish(event.kind) THEN "undefined" ELSE event.altKey

\* What a wrapper yields when an exception escapes it.
Thrown ==
    [ignore |-> "na", calls |-> <<>>, threw |-> TRUE,
     result |-> Call("TypeError", "na", "na", NoOptions("undefined"), "na", <<>>)]

\* options?.chatMessage === false || options?.vanilla, in _actorProcessWrapper
ActorBypass(options) ==
    ChatMessageOf(options) = "false" \/ Truthy(VanillaOf(options))

\* options?.event?.altKey ?? false
ActorIgnore(options) ==
    Coalesce(AltKeyOf(EventOf(options)), "false")

\* _actorProcessWrapper: the roll, the ignore flag, and the invocations made.
actorProcessWrapper(caller, options, id) ==
    IF ActorBypass(options)
    THEN LET roll == Call("original", caller, id, options, "na", <<>>)
         IN  [roll |-> roll, ignore |-> "true", calls |-> <<roll>>, threw |-> FALSE]
    ELSE LET ignore == ActorIgnore(options)
             roll   == Call("rollActorWrapper", caller, id, options, ignore, <<>>)
         IN  IF ignore = "TypeError"
             THEN [roll |-> Thrown.result, ignore |-> "na", calls |-> <<>>, threw |-> TRUE]
             ELSE [roll |-> roll, ignore |-> ignore, calls |-> <<roll>>, threw |-> FALSE]

\* The tail shared by the three actor wrappers:
\*     return ignore ? roll : RollUtility.<quick>(this, id, roll);
ActorReturn(p, quick, caller, id) ==
    IF p.threw THEN Thrown
    ELSE IF Truthy(p.ignore)
    THEN [ignore |-> p.ignore, calls |-> p.calls, threw |-> FALSE, result |-> p.roll]
    ELSE LET q == Call(quick, caller, id, NoOptions("undefined"), "na", <<p.roll>>)
         IN  [ignore |-> p.ignore, calls |-> Append(p.calls, q), threw |-> FALSE,
              result |-> q]

actorRollSkillFn(caller, skillId, options) ==
    ActorReturn(actorProcessWrapper(caller, options, skillId), "rollSkill", caller, skillId)

actorRollAbilityTestFn(caller, ability, options) ==
    ActorReturn(actorProcessWrapper(caller, options, ability), "rollAbilityTest", caller, ability)

\* Mutation of actorRollAbilitySaveFn: the save goes to the ability-test
\* quick roll.
actorRollAbilitySaveFnAsTest(caller, ability, options) ==
    ActorReturn(actorProcessWrapper(caller, options, ability), "rollAbilityTest", caller, ability)

actorRollAbilitySaveFn(caller, ability, options) ==
    ActorReturn(actorProcessWrapper(caller, options, ability), "rollAbilitySave", caller, ability)

\* Mutation of MergeObject: the default is merged over the caller's options.
MergeObjectDefaultWins(windowEvent, options) ==
    [kind |-> "object", chatMessage |-> ChatMessageOf(options),
     vanilla |-> VanillaOf(options), event |-> windowEvent]

\* foundry.utils.mergeObject({ event: window.event }, options, { recursive: false }):
\* every key the caller's options hold overwrites the default; a missing or
\* null options argument is treated as {}.
MergeObject(windowEvent, options) ==
    IF Nullish(options.kind)
    THEN [kind |-> "object", chatMessage |-> "undefined", vanilla |-> "undefined",
          event |-> windowEvent]
    ELSE [options EXCEPT !.event =
              IF options.event.kind = "absent" THEN windowEvent ELSE options.event]

\* Mutation of ItemBypass: the vanilla option is not looked at.
ItemBypassNoVanilla(options) ==
    ChatMessageOf(options) = "false"

\* options?.chatMessage === false || options?.vanilla, in _itemProcessWrapper
ItemBypass(options) ==
    ChatMessageOf(options) = "false" \/ Truthy(VanillaOf(options))

\* Mutation of ItemIgnore: the alternate-roll predicate is not consulted.
ItemIgnoreNoAltRoll(options, altRoll) ==
    Coalesce(AltKeyOf(EventOf(options)), "false")

\* (options?.event?.altKey && !CoreUtility.eventToAltRoll(options?.event)) ?? false
\* altRoll is what eventToAltRoll returns for this event.
ItemIgnore(options, altRoll) ==
    Coalesce(AndAlso(AltKeyOf(EventOf(options)), Bool(~altRoll)), "false")

\* _itemProcessWrapper
itemProcessWrapper(caller, options, altRoll) ==
    IF ItemBypass(options)
    THEN LET r == Call("original", caller, "na", options, "na", <<>>)
         IN  [ignore |-> "na", calls |-> <<r>>, threw |-> FALSE, result |-> r]
    ELSE LET ignore == ItemIgnore(options, altRoll)
             pred   == IF Truthy(AltKeyOf(EventOf(options)))
                       THEN <<Call("eventToAltRoll", "na", "na", options, "na", <<>>)>>
                       ELSE <<>>
             r      == Call("rollItemWrapper", caller, "na", options, ignore, <<>>)
         IN  IF ignore = "TypeError"
             THEN Thrown
             ELSE [ignore |-> ignore, calls |-> Append(pred, r), threw |-> FALSE,
                   result |-> r]

\* _itemUse
itemUseFn(caller, options, windowEvent, altRoll) ==
    itemProcessWrapper(caller, MergeObject(windowEvent, options), altRoll)

\* The observation of one wrapper call: its inputs and its outcome.
Observe(method, caller, id, options, windowEvent, altRoll, out) ==
    [method |-> method, caller |-> caller, id |-> id, options |-> options,
     windowEvent |-> windowEvent, altRoll |-> altRoll,
     ignore |-> out.ignore, calls |-> out.calls, threw |-> out.threw,
     result |-> out.result]

NoCall ==
    Observe("none", "na", "na", NoOptions("undefined"), NoEvent, FALSE,
            [ignore |-> "na", calls |-> <<>>, threw |-> FALSE,
             result |-> Call("none", "na", "na", NoOptions("undefined"), "na", <<>>)])

\* The host calls Actor.rollSkill, which libWrapper routes to _actorRollSkill.
actorRollSkill ==
    /\ IsRegistered("Actor.rollSkill")
    /\ lastCall = NoCall
    /\ \E caller \in Callers, id \in Ids, options \in OptionsSet :
          lastCall' = Observe("rollSkill", caller, id, options, NoEvent, FALSE,
                              actorRollSkillFn(caller, id, options))
    /\ UNCHANGED <<settings, registered, patchRan, quickRollVars, paramVars>>

actorRollAbilityTest ==
    /\ IsRegistered("Actor.rollAbilityTest")
    /\ lastCall = NoCall
    /\ \E caller \in Callers, id \in Ids, options \in OptionsSet :
          lastCall' = Observe("rollAbilityTest", caller, id, options, NoEvent, FALSE,
                              actorRollAbilityTestFn(caller, id, options))
    /\ UNCHANGED <<settings, registered, patchRan, quickRollVars, paramVars>>

actorRollAbilitySave ==
    /\ IsRegistered("Actor.rollAbilitySave")
    /\ lastCall = NoCall
    /\ \E caller \in Callers, id \in Ids, options \in OptionsSet :
          lastCall' = Observe("rollAbilitySave", caller, id, options, NoEvent, FALSE,
                              actorRollAbilitySaveFn(caller, id, options))
    /\ UNCHANGED <<settings, registered, patchRan, quickRollVars, paramVars>>

\* The host calls Item.use, which libWrapper routes to _itemUse; window.event
\* is whatever event the browser is dispatching at that moment.
itemUse ==
    /\ IsRegistered("Item.use")
    /\ lastCall = NoCall
    /\ \E caller \in Callers, options \in OptionsSet, windowEvent \in WindowEvents,
          altRoll \in BOOLEAN :
          lastCall' = Observe("use", caller, "na", options, windowEvent, altRoll,
                              itemUseFn(caller, options, windowEvent, altRoll))
    /\ UNCHANGED <<settings, registered, patchRan, quickRollVars, paramVars>>

\* The host calls ItemSheet._onChangeTab, overridden by _onChangeTab.
onChangeTab ==
    /\ IsRegistered("ItemSheet._onChangeTab")
    /\ lastCall = NoCall
    /\ \E caller \in Callers :
          LET c == Call("setAutoHeightOnSheet", caller, "na", NoOptions("undefined"),
                        "na", <<>>)
          IN  lastCall' = Observe("_onChangeTab", caller, "na", NoOptions("undefined"),
                                  NoEvent, FALSE,
                                  [ignore |-> "na", calls |-> <<c>>, threw |-> FALSE,
                                   result |-> Call("undefined", "na", "na",
                                                   NoOptions("undefined"), "na", <<>>)])
    /\ UNCHANGED <<settings, registered, patchRan, quickRollVars, paramVars>>

\* The promise returned by the wrapper settles and the host takes its value;
\* the wrappers keep no state of their own between calls.
settle ==
    /\ lastCall # NoCall
    /\ lastCall' = NoCall
    /\ UNCHANGED <<settings, registered, patchRan, quickRollVars, paramVars>>

----------------------------------------------------------------------------
(* QuickRoll                                                               *)

\* Longest field sequence given to a QuickRoll.
MaxFields == 2

\* Number of toMessage/_render invocations made on the QuickRoll.
MaxCalls == 2

\* The invocations, numbered in the order in which they start.
Calls == 1 .. MaxCalls

\* The formula entry of a field's second element: a missing key, null, a
\* plain string, or a Roll object (which has a formula string of its own).
NoFormula == [kind |-> "absent", str |-> ""]

Formulas ==
    {NoFormula,
     [kind |-> "null", str |-> ""],
     [kind |-> "string", str |-> "1d4"],
     [kind |-> "roll", str |-> "2d6+3"],
     [kind |-> "roll", str |-> ""]}

\* The field's data holds a Roll with a non-empty formula.
HasRollFormulaShape(f) ==
    f.payload.formula.kind = "roll" /\ f.payload.formula.str # ""

\* Roll fields [type, data]: the second element may be missing.
FieldSet ==
    {[type |-> "header", payload |-> [kind |-> "undefined", formula |-> NoFormula]]}
    \cup [type : {"damage"}, payload : [kind : {"object"}, formula : Formulas]]

\* [ "header" ] and [ "damage", { formula: <Roll 2d6+3> } ]
HeaderField == CHOOSE f \in FieldSet : f.payload.kind = "undefined"

DamageField == CHOOSE f \in FieldSet : HasRollFormulaShape(f)

\* The cards whose calls are let overlap: no field, a header, and a header
\* followed by a damage roll.
CardFieldSeqs == {<<>>, <<HeaderField>>, <<HeaderField, DamageField>>}

FieldSeqs == UNION {[1 .. n -> FieldSet] : n \in 0 .. MaxFields}

\* deepClone(field): a copy built key by key; a Roll instance is not a plain
\* object and is carried over as it is.
DeepClone(field) ==
    [type |-> field.type,
     payload |-> [kind |-> field.payload.kind,
                  formula |-> IF field.payload.formula.kind = "roll"
                              THEN field.payload.formula
                              ELSE [kind |-> field.payload.formula.kind,
                                    str |-> field.payload.formula.str]]]

\* field[1] && 'formula' in field[1] && field[1].formula?.formula
HasRollFormula(field) ==
    /\ field.payload.kind = "object"
    /\ field.payload.formula.kind # "absent"
    /\ field.payload.formula.kind = "roll"
    /\ field.payload.formula.str # ""

\* The callback of this.fields.map in _getFlags.
FlagsField(field) ==
    LET newField == DeepClone(field)
    IN  IF HasRollFormula(field)
        THEN [newField EXCEPT !.payload.formula =
                  [kind |-> "string", str |-> field.payload.formula.str]]
        ELSE newField

\* Mutation of SharesPayload: the clone always shares the second element.
SharesPayloadAlways(field) == TRUE

\* newField[1] is field[1] itself: deepClone copies arrays and plain objects
\* key by key and hands anything else back as it is.
SharesPayload(field) == field.payload.kind \notin {"undefined", "null", "object"}

\* The field after the callback in _getFlags has run on it: the assignment
\* newField[1].formula = field[1].formula.formula lands in the field's own
\* second element when the clone shares it.
FieldAfterFlags(field) ==
    IF HasRollFormula(field) /\ SharesPayload(field)
    THEN [field EXCEPT !.payload.formula =
             [kind |-> "string", str |-> field.payload.formula.str]]
    ELSE field

\* this.fields after _getFlags.
FieldsAfterFlags(fs) == [i \in 1 .. Len(fs) |-> FieldAfterFlags(fs[i])]

\* _getFlags
getFlagsFn(fs) ==
    [rsr5e |-> [fields |-> [i \in 1 .. Len(fs) |-> FlagsField(fs[i])]],
     canPopout |-> TRUE]

\* What a call has returned: nothing yet, the rendered card (_render), the
\* draft chat data or the created message (toMessage), or a rejection.
Result(kind, id, content, data) ==
    [kind |-> kind, id |-> id, content |-> content, data |-> data]

NoResult == Result("none", 0, <<>>, <<>>)

IdleCall ==
    [pc |-> "idle", entry |-> "none", createMessage |-> FALSE, idx |-> 0,
     afterFirst |-> FALSE, renderHooks |-> 0, chatHooks |-> 0,
     draft |-> <<>>, result |-> NoResult]

\* The state of a QuickRoll when its constructor returns.
QuickRollConstructed ==
    /\ templates = <<>>
    /\ processed = FALSE
    /\ currentId = -1
    /\ messageId = 0
    /\ messages = <<>>
    /\ calls = [c \in Calls |-> IdleCall]
    /\ renderLog = {}
    /\ flags = <<>>

\* The _render of call d has returned its card.
RenderReturned(d) ==
    \/ calls[d].pc \in {"awaitChatHook", "awaitCreate"}
    \/ calls[d].pc \in {"done", "failed"} /\ calls[d].renderHooks > 0

\* Mutation of ShouldProcess: the processed flag is not consulted.
ShouldProcessAlways(p) == TRUE

\* if (!this.processed)
ShouldProcess(p) == ~p

\* Mutation of IdFor: every field is given the same id.
IdForConstant(cur) == -1

\* The value of this._currentId++ ...
IdFor(cur) == cur

\* Mutation of IdAfter: the counter is decremented.
IdAfterDecrement(cur) == cur - 1

\* ... and what it leaves in _currentId.
IdAfter(cur) == cur + 1

\* Mutation of ShouldCreate: the message is always sent.
ShouldCreateAlways(createMessage) == TRUE

\* if (createMessage)
ShouldCreate(createMessage) == createMessage

\* Mutation of Push: the fragment is put in front.
PushFront(ts, fragment) == <<fragment>> \o ts

\* this.templates.push(render)
Push(ts, fragment) == Append(ts, fragment)

\* Mutation of RenderFailure: the render hook fires on the way out, as from
\* a finally block.
RenderFailureWithHook(rec) ==
    [rec EXCEPT !.pc = "failed", !.renderHooks = @ + 1,
                !.result = Result("renderError", 0, <<>>, <<>>)]

\* The rejection of renderFromField thrown out of the await in _render:
\* nothing catches it in _render or in toMessage.
RenderFailure(rec) ==
    [rec EXCEPT !.pc = "failed", !.result = Result("renderError", 0, <<>>, <<>>)]

\* Mutation of FireChatHook: the draft is built but the hook is not called.
FireChatHookSkipped(rec, chatData) ==
    [rec EXCEPT !.pc = "awaitChatHook", !.draft = <<chatData>>]

\* await Hooks.callAll(HOOK_CHAT_MESSAGE, this, chatData): the hook has
\* fired with the draft, the call is suspended.
FireChatHook(rec, chatData) ==
    [rec EXCEPT !.pc = "awaitChatHook", !.chatHooks = @ + 1, !.draft = <<chatData>>]

\* this.messageId = message.id
AssignMessageId(old, id) == id

\* await Hooks.callAll(HOOK_RENDER, this): the hook has fired, the call is
\* suspended.
FireRenderHook(rec) ==
    [rec EXCEPT !.pc = "awaitRenderHook", !.idx = 0, !.renderHooks = @ + 1]

\* The for loop of _render arrives at field k: either the field gets its id
\* and renderFromField is invoked (the call is suspended on it), or the loop
\* is over, processed is set and the render hook fires.
Iterate(c, k, rec) ==
    IF k <= Len(fields)
    THEN /\ currentId' = IdAfter(currentId)
         /\ renderLog' = renderLog \cup {[call |-> c, field |-> k, id |-> IdFor(currentId)]}
         /\ calls' = [calls EXCEPT ![c] = [rec EXCEPT !.pc = "awaitRender", !.idx = k]]
         /\ UNCHANGED processed
    ELSE /\ processed' = TRUE
         /\ calls' = [calls EXCEPT ![c] = FireRenderHook(rec)]
         /\ UNCHANGED <<currentId, renderLog>>

\* Call d has started and has neither returned nor failed.
InFlight(d) == calls[d].pc \notin {"idle", "done", "failed"}

\* A call starts and runs up to the first await inside _render; the host
\* starts it while fewer than `limit` calls are in flight.
StartCall(c, entry, createMessage, limit) ==
    /\ calls[c].pc = "idle"
    /\ Cardinality({d \in Calls : InFlight(d)}) < limit
    /\ IF c = 1 THEN TRUE ELSE calls[c - 1].pc # "idle"
    /\ LET rec == [calls[c] EXCEPT !.entry = entry,
                                   !.createMessage = createMessage,
                                   !.afterFirst = \E d \in Calls : RenderReturned(d)]
       IN  IF ShouldProcess(processed)
           THEN Iterate(c, 1, rec)
           ELSE /\ calls' = [calls EXCEPT ![c] = FireRenderHook(rec)]
                /\ UNCHANGED <<processed, currentId, renderLog>>
    /\ UNCHANGED <<fields, templates, messageId, messages, flags>>

\* toMessage({ rollMode, createMessage })
toMessage(c, limit) ==
    /\ \E createMessage \in BOOLEAN : StartCall(c, "toMessage", createMessage, limit)
    /\ UNCHANGED <<patchVars, paramVars>>

\* _render() called on its own
render(c, limit) ==
    /\ StartCall(c, "_render", FALSE, limit)
    /\ UNCHANGED <<patchVars, paramVars>>

\* The id handed to renderFromField for the field call c is waiting on.
PendingId(c) ==
    (CHOOSE r \in renderLog : r.call = c /\ r.field = calls[c].idx).id

\* renderFromField resolves: the fragment is pushed and the loop goes on.
renderFromFieldResolves(c) ==
    /\ calls[c].pc = "awaitRender"
    /\ templates' = Push(templates, [field |-> calls[c].idx, id |-> PendingId(c)])
    /\ Iterate(c, calls[c].idx + 1, calls[c])
    /\ UNCHANGED <<fields, messageId, messages, flags, patchVars, paramVars>>

\* renderFromField rejects: the rejection leaves _render (and toMessage).
renderFromFieldRejects(c) ==
    /\ calls[c].pc = "awaitRender"
    /\ calls' = [calls EXCEPT ![c] = RenderFailure(@)]
    /\ UNCHANGED <<fields, templates, processed, currentId, messageId, messages,
                   renderLog, flags, patchVars, paramVars>>

\* The render hook's await is over: renderFullCard builds the card from the
\* templates and _render returns it.  In toMessage the chat data is put
\* together and the chat-message hook fires; its observers may change the
\* draft (observers: whether the observers registered can do so).
renderHookReturns(c, observers) ==
    /\ calls[c].pc = "awaitRenderHook"
    /\ IF calls[c].entry = "_render"
       THEN /\ calls' = [calls EXCEPT ![c] =
                [@ EXCEPT !.pc = "done", !.result = Result("content", 0, templates, <<>>)]]
            /\ UNCHANGED fields
       ELSE /\ \E touched \in observers :
                 calls' = [calls EXCEPT ![c] =
                   FireChatHook(@, [content |-> templates,
                                    flags |-> getFlagsFn(fields),
                                    touched |-> touched])]
            /\ fields' = FieldsAfterFlags(fields)
    /\ UNCHANGED <<templates, processed, currentId, messageId, messages,
                   renderLog, flags, patchVars, paramVars>>

\* The chat-message hook's await is over: the message is sent, or the draft
\* is returned.
chatHookReturns(c) ==
    /\ calls[c].pc = "awaitChatHook"
    /\ calls' = [calls EXCEPT ![c] =
                    IF ShouldCreate(calls[c].createMessage)
                    THEN [@ EXCEPT !.pc = "awaitCreate"]
                    ELSE [@ EXCEPT !.pc = "done",
                                   !.result = Result("chatData", 0, <<>>, calls[c].draft)]]
    /\ UNCHANGED <<fields, templates, processed, currentId, messageId, messages,
                   renderLog, flags, patchVars, paramVars>>

\* ChatMessage.create resolves with the new message.
createResolves(c) ==
    /\ calls[c].pc = "awaitCreate"
    /\ LET message == [id |-> Len(messages) + 1, by |-> c, data |-> calls[c].draft]
       IN  /\ messages' = Append(messages, message)
           /\ messageId' = AssignMessageId(messageId, message.id)
           /\ calls' = [calls EXCEPT ![c] =
                  [@ EXCEPT !.pc = "done",
                            !.result = Result("message", message.id, <<>>, message.data)]]
    /\ UNCHANGED <<fields, templates, processed, currentId, renderLog, flags, patchVars, paramVars>>

\* ChatMessage.create rejects.
createRejects(c) ==
    /\ calls[c].pc = "awaitCreate"
    /\ calls' = [calls EXCEPT ![c] =
                    [@ EXCEPT !.pc = "failed",
                              !.result = Result("createError", 0, <<>>, <<>>)]]
    /\ UNCHANGED <<fields, templates, processed, currentId, messageId, messages,
                   renderLog, flags, patchVars, paramVars>>

\* _getFlags() called on its own
getFlags ==
    /\ flags' = <<getFlagsFn(fields)>>
    /\ fields' = FieldsAfterFlags(fields)
    /\ UNCHANGED <<templates, processed, currentId, messageId, messages,
                   calls, renderLog, patchVars, paramVars>>

----------------------------------------------------------------------------
(* QuickRoll parameters: defaultParams and the constructor                 *)

MaxRolls == 2

\* The keys a useCharge object may hold.
ChargeKeys == {"value", "quantity"}

\* let defaultParams = { ... }: the record as the module is loaded; its
\* useCharge is the first of the useCharge objects, and that is empty.
defaultParams ==
    [label |-> "", forceCrit |-> "false", forceMultiroll |-> "false",
     preset |-> "null", properties |-> "true", slotLevel |-> "null",
     useCharge |-> 1, placeTemplate |-> "false", hasAdvantage |-> "false",
     hasDisadvantage |-> "false", consume |-> "true", infoOnly |-> "false"]

\* The module is loaded and no QuickRoll has been constructed.
ParamsLoaded ==
    /\ paramObjects = <<defaultParams>>
    /\ chargeObjects = <<{}>>
    /\ rolls = <<>>
    /\ lastParams = <<>>

\* The params argument when it is not an object.
NoParams(k) ==
    [kind |-> k, label |-> "absent", forceCrit |-> "absent",
     useCharge |-> [present |-> FALSE, keys |-> {}]]

\* The params a caller can pass: undefined, null, or an object overriding
\* any of label, forceCrit and useCharge.
ParamsSet ==
    {NoParams("undefined"), NoParams("null")} \cup
    [kind : {"object"}, label : {"absent", "Attack"}, forceCrit : {"absent", "true"},
     useCharge : {[present |-> FALSE, keys |-> {}]} \cup
                 [present : {TRUE}, keys : {{}, {"value"}}]]

\* params || {}
OrEmpty(params) ==
    IF Nullish(params.kind) THEN NoParams("object") ELSE params

\* What JSON.parse(JSON.stringify(v)) makes of a primitive value of a key:
\* a key whose value is undefined is dropped, any other value comes back.
JsonValue(v) == IF v = "undefined" THEN "absent" ELSE v

\* Mutation of Duplicate: a shallow copy, the nested useCharge object is
\* shared with the source.
DuplicateShallow(pObjs, cObjs, ref) ==
    [paramObjects |-> Append(pObjs, pObjs[ref]), chargeObjects |-> cObjs,
     ref |-> Len(pObjs) + 1]

\* foundry.utils.duplicate(obj), a JSON round trip: a new record with the
\* same values, its useCharge a new object with the same keys.
Duplicate(pObjs, cObjs, ref) ==
    LET src == pObjs[ref]
        copy == [k \in DOMAIN src |->
                    IF k = "useCharge" THEN Len(cObjs) + 1 ELSE JsonValue(src[k])]
    IN  [paramObjects |-> Append(pObjs, copy),
         chargeObjects |-> Append(cObjs, cObjs[src.useCharge]),
         ref |-> Len(pObjs) + 1]

\* foundry.utils.mergeObject(original, other): the keys of other are written
\* into original, in place, an object value being merged into the object
\* original holds under the same key; original is returned.
MergeParams(pObjs, cObjs, ref, other) ==
    [paramObjects |->
        [pObjs EXCEPT ![ref] =
            [@ EXCEPT !.label = IF other.label = "absent" THEN @ ELSE other.label,
                      !.forceCrit = IF other.forceCrit = "absent" THEN @
                                    ELSE other.forceCrit]],
     chargeObjects |->
        [cObjs EXCEPT ![pObjs[ref].useCharge] =
            IF other.useCharge.present THEN @ \cup other.useCharge.keys ELSE @],
     ref |-> ref]

\* new QuickRoll(origin, params, fields):
\*     this.params = mergeObject(duplicate(defaultParams), params || {})
construct ==
    /\ Len(rolls) < MaxRolls
    /\ \E params \in ParamsSet :
          LET d == Duplicate(paramObjects, chargeObjects, 1)
              m == MergeParams(d.paramObjects, d.chargeObjects, d.ref, OrEmpty(params))
          IN  /\ paramObjects' = m.paramObjects
              /\ chargeObjects' = m.chargeObjects
              /\ rolls' = Append(rolls, [params |-> m.ref])
              /\ lastParams' = <<params>>
    /\ UNCHANGED <<patchVars, quickRollVars>>

\* Code holding a QuickRoll writes a key of its params (quickRoll.params is
\* a public field).
setParam ==
    /\ \E r \in DOMAIN rolls, label \in {"", "Attack"}, forceCrit \in {"false", "true"} :
          paramObjects' = [paramObjects EXCEPT ![rolls[r].params] =
                              [@ EXCEPT !.label = label, !.forceCrit = forceCrit]]
    /\ lastParams' = <<>>
    /\ UNCHANGED <<chargeObjects, rolls, patchVars, quickRollVars>>

\* Code holding a QuickRoll writes a key of its params.useCharge.
setUseCharge ==
    /\ \E r \in DOMAIN rolls, k \in ChargeKeys :
          chargeObjects' = [chargeObjects EXCEPT
                               ![paramObjects[rolls[r].params].useCharge] = @ \cup {k}]
    /\ lastParams' = <<>>
    /\ UNCHANGED <<paramObjects, rolls, patchVars, quickRollVars>>

----------------------------------------------------------------------------
(* Specifications                                                          *)

InitPatch ==
    /\ settings \in SettingsSet
    /\ registered = {}
    /\ patchRan = {}
    /\ lastCall = NoCall
    /\ fields = <<>>
    /\ QuickRollConstructed
    /\ ParamsLoaded

NextPatch ==
    \/ patchActors
    \/ patchItems
    \/ patchItemSheets
    \/ actorRollSkill
    \/ actorRollAbilityTest
    \/ actorRollAbilitySave
    \/ itemUse
    \/ onChangeTab
    \/ settle

SpecPatch == InitPatch /\ [][NextPatch]_vars

\* The patching layer before PatchingUtility has run.
Unpatched ==
    /\ settings = [QUICK_SKILL_ENABLED |-> FALSE, QUICK_ABILITY_ENABLED |-> FALSE,
                   QUICK_ITEM_ENABLED |-> FALSE]
    /\ registered = {}
    /\ patchRan = {}
    /\ lastCall = NoCall

\* One QuickRoll whose toMessage/_render calls may overlap in any way, with
\* no observer of the chat-message hook that changes the draft.
InitQuickRoll ==
    /\ fields \in CardFieldSeqs
    /\ QuickRollConstructed
    /\ Unpatched
    /\ ParamsLoaded

NextQuickRoll ==
    \/ \E c \in Calls : toMessage(c, MaxCalls)
    \/ \E c \in Calls : render(c, MaxCalls)
    \/ \E c \in Calls : renderFromFieldResolves(c)
    \/ \E c \in Calls : renderFromFieldRejects(c)
    \/ \E c \in Calls : renderHookReturns(c, {FALSE})
    \/ \E c \in Calls : chatHookReturns(c)
    \/ \E c \in Calls : createResolves(c)
    \/ \E c \in Calls : createRejects(c)

SpecQuickRoll == InitQuickRoll /\ [][NextQuickRoll]_vars

\* One QuickRoll over every shape of field, used by a host that awaits each
\* call before it makes the next and reads the flags at any moment, with
\* observers of the chat-message hook that may change the draft.
InitSequential ==
    /\ fields \in FieldSeqs
    /\ QuickRollConstructed
    /\ Unpatched
    /\ ParamsLoaded

NextSequential ==
    \/ getFlags
    \/ \E c \in Calls : toMessage(c, 1)
    \/ \E c \in Calls : render(c, 1)
    \/ \E c \in Calls : renderFromFieldResolves(c)
    \/ \E c \in Calls : renderFromFieldRejects(c)
    \/ \E c \in Calls : renderHookReturns(c, BOOLEAN)
    \/ \E c \in Calls : chatHookReturns(c)
    \/ \E c \in Calls : createResolves(c)
    \/ \E c \in Calls : createRejects(c)

SpecSequential == InitSequential /\ [][NextSequential]_vars

\* The constructions of QuickRolls in one session, and the writes to their
\* params by the code that holds them.
InitParams ==
    /\ fields = <<>>
    /\ QuickRollConstructed
    /\ Unpatched
    /\ ParamsLoaded

NextParams ==
    \/ construct
    \/ setParam
    \/ setUseCharge

SpecParams == InitParams /\ [][NextParams]_vars

----------------------------------------------------------------------------
(* Properties of the patching layer, checked under SpecPatch               *)

ActorMethods == {"rollSkill", "rollAbilityTest", "rollAbilitySave"}

\* The caller's options ask for the host's own behaviour:
\* chatMessage is exactly false, or vanilla is truthy.
AsksVanilla(o) ==
    o.kind = "object" /\ (o.chatMessage = "false" \/ o.vanilla = "true")

\* C1: for every intercepted call (rollSkill, rollAbilityTest,
\* rollAbilitySave, item use) whose options have chatMessage === false or a
\* truthy vanilla, the wrapper invokes the original host method exactly once,
\* invokes nothing else (no quick-roll collaborator), and returns the
\* original's result; whatever the Alt key and the alternate-roll predicate.
BypassReturnsOriginal ==
    (lastCall.method \in ActorMethods \cup {"use"} /\ AsksVanilla(lastCall.options))
        => /\ ~lastCall.threw
           /\ Len(lastCall.calls) = 1
           /\ lastCall.calls[1].by = "original"
           /\ lastCall.calls[1].caller = lastCall.caller
           /\ lastCall.result = lastCall.calls[1]

\* C1 witness: an item use with vanilla set, Alt held and the alternate-roll
\* predicate false, answered by the original.
BypassReturnsOriginalWitness ==
    /\ lastCall.method = "use"
    /\ lastCall.options.kind = "object"
    /\ lastCall.options.vanilla = "true"
    /\ lastCall.options.chatMessage = "true"
    /\ lastCall.options.event.altKey = "true"
    /\ ~lastCall.altRoll
    /\ lastCall.result.by = "original"

\* C2: for an item use that is not on the bypass path, the ignore flag
\* passed to rollItemWrapper is true iff the Alt key of the event in the
\* options was held and the alternate-roll predicate returned false, and it
\* is false otherwise (also when there is no event).
ItemIgnoreIffAltAndNotAltRoll ==
    (lastCall.method = "use" /\ ~AsksVanilla(lastCall.options))
        => LET r  == lastCall.calls[Len(lastCall.calls)]
               ev == r.options.event
               altHeld == ev.kind = "object" /\ ev.altKey = "true"
           IN  /\ Len(lastCall.calls) >= 1
               /\ r.by = "rollItemWrapper"
               /\ r.ignore = Bool(altHeld /\ ~lastCall.altRoll)
               /\ lastCall.ignore = r.ignore

\* C2 witness: Alt held, predicate true, so the item is quick-rolled.
ItemIgnoreWitness ==
    /\ lastCall.method = "use"
    /\ ~AsksVanilla(lastCall.options)
    /\ lastCall.windowEvent.altKey = "true"
    /\ lastCall.options.kind = "undefined"
    /\ lastCall.altRoll
    /\ lastCall.ignore = "false"
    /\ lastCall.result.by = "rollItemWrapper"

\* C3: for an actor roll that is not on the bypass path, ignore is true
\* exactly when the options hold an event whose Alt key was held; with the
\* options, the event or altKey missing it is false and the quick-roll
\* routine runs; and no actor wrapper call ever throws.
ActorIgnoreIsAltKey ==
    lastCall.method \in ActorMethods
        => /\ ~lastCall.threw
           /\ ~AsksVanilla(lastCall.options)
                => LET o == lastCall.options
                       altHeld == /\ o.kind = "object"
                                  /\ o.event.kind = "object"
                                  /\ o.event.altKey = "true"
                   IN  /\ lastCall.ignore = Bool(altHeld)
                       /\ lastCall.calls[1].by = "rollActorWrapper"
                       /\ lastCall.calls[1].ignore = lastCall.ignore
                       /\ ~altHeld => /\ Len(lastCall.calls) = 2
                                      /\ lastCall.result.by = lastCall.method

\* C3 witness: rollSkill called without any options takes the quick-roll path.
ActorIgnoreWitness ==
    /\ lastCall.method = "rollSkill"
    /\ lastCall.options.kind = "undefined"
    /\ lastCall.ignore = "false"
    /\ lastCall.result.by = "rollSkill"

AllPatches == {"patchActors", "patchItems", "patchItemSheets"}

\* C6: once patchActors, patchItems and patchItemSheets have run, a wrapper
\* is registered for a host method iff its setting is enabled: rollSkill iff
\* the skill setting, rollAbilityTest and rollAbilitySave iff the ability
\* setting, item use and the sheet tab-change override iff the item setting.
RegisteredIffEnabled ==
    patchRan = AllPatches
        => /\ IsRegistered("Actor.rollSkill") <=> settings.QUICK_SKILL_ENABLED
           /\ IsRegistered("Actor.rollAbilityTest") <=> settings.QUICK_ABILITY_ENABLED
           /\ IsRegistered("Actor.rollAbilitySave") <=> settings.QUICK_ABILITY_ENABLED
           /\ IsRegistered("Item.use") <=> settings.QUICK_ITEM_ENABLED
           /\ IsRegistered("ItemSheet._onChangeTab") <=> settings.QUICK_ITEM_ENABLED

\* C6 witness: everything has been patched with the skill setting disabled
\* and the two others enabled.
RegisteredIffEnabledWitness ==
    /\ patchRan = AllPatches
    /\ ~settings.QUICK_SKILL_ENABLED
    /\ settings.QUICK_ABILITY_ENABLED
    /\ settings.QUICK_ITEM_ENABLED
    /\ ~IsRegistered("Actor.rollSkill")
    /\ IsRegistered("Actor.rollAbilitySave")
    /\ IsRegistered("ItemSheet._onChangeTab")

----------------------------------------------------------------------------
(* Properties of the QuickRoll, checked under SpecQuickRoll and               *)
(* SpecSequential                                                          *)

\* The positions at which the render hook of a call has fired.
PastRenderHook == {"awaitRenderHook", "awaitChatHook", "awaitCreate", "done"}

\* C4: _render is idempotent.  A call that starts after an earlier _render
\* has returned never invokes renderFromField, hands out no id and leaves
\* templates as they are in every one of its steps, and every call whose
\* render pass is over has fired the render hook exactly once.
RenderIdempotent ==
    [][\A c \in Calls :
          /\ (calls'[c] # calls[c] /\ calls'[c].afterFirst)
                => /\ templates' = templates
                   /\ renderLog' = renderLog
                   /\ currentId' = currentId
          /\ calls'[c].pc \in PastRenderHook => calls'[c].renderHooks = 1]_vars

\* C4 witness: two fields, a first _render that returned, and a second call
\* started afterwards that returned too.
RenderIdempotentWitness ==
    /\ Len(fields) = 2
    /\ calls[1].pc = "done"
    /\ calls[2].pc = "done"
    /\ calls[2].afterFirst
    /\ calls[2].entry = "_render"
    /\ calls[2].renderHooks = 1
    /\ Len(templates) = 2

\* C5: _getFlags returns, under the module key, a fields sequence as long as
\* the QuickRoll's fields in which every field whose second element holds a
\* formula object with a formula string of its own has that formula replaced
\* by the string, and every other field is an equal copy.
FlagsFlattenRollFormulas ==
    flags # <<>>
        => LET out == flags[1].rsr5e.fields
           IN  /\ Len(out) = Len(fields)
               /\ \A i \in 1 .. Len(fields) :
                     out[i] =
                        IF /\ fields[i].payload.kind = "object"
                           /\ fields[i].payload.formula.kind = "roll"
                        THEN [fields[i] EXCEPT !.payload.formula =
                                 [kind |-> "string",
                                  str |-> fields[i].payload.formula.str]]
                        ELSE fields[i]

\* The messages of ms that call c created.
MessagesBy(ms, c) == {i \in DOMAIN ms : ms[i].by = c}

\* C7: toMessage persists a chat message iff createMessage is true.  With
\* the flag false the call creates no message, none of its steps changes
\* messageId, and it returns the draft chat data; with the flag true a call
\* that returns has created exactly one message, from the draft chat data,
\* returns it, and on doing so sets messageId to that message's id.
PersistsIffCreateMessage ==
    [][\A c \in Calls :
          calls'[c].entry = "toMessage"
            => LET mine == MessagesBy(messages', c)
                   rec  == calls'[c]
               IN  IF rec.createMessage
                   THEN /\ Cardinality(mine) <= 1
                        /\ rec.pc = "done"
                             => /\ Cardinality(mine) = 1
                                /\ \A i \in mine :
                                      /\ messages'[i].data = rec.draft
                                      /\ rec.result.kind = "message"
                                      /\ rec.result.id = messages'[i].id
                                      /\ calls[c].pc # "done"
                                            => messageId' = messages'[i].id
                   ELSE /\ mine = {}
                        /\ calls[c] # rec => messageId' = messageId
                        /\ rec.pc = "done"
                             => /\ rec.result.kind = "chatData"
                                /\ rec.result.data = rec.draft]_vars

\* C7 witness: one toMessage that sent its message and one that returned the
\* draft.
PersistsWitness ==
    /\ calls[1].entry = "toMessage"
    /\ calls[1].createMessage
    /\ calls[1].pc = "done"
    /\ messageId = 1
    /\ calls[2].entry = "toMessage"
    /\ ~calls[2].createMessage
    /\ calls[2].pc = "done"
    /\ calls[2].result.kind = "chatData"
    /\ Len(messages) = 1

\* C8: in every state each field has been rendered at most once and
\* templates holds no more fragments than there are fields.
RenderedAtMostOnce ==
    /\ \A k \in 1 .. Len(fields) :
          Cardinality({r \in renderLog : r.field = k}) <= 1
    /\ Len(templates) <= Len(fields)

\* The renderFromField invocations of the first _render.
FirstRender == {r \in renderLog : r.call = 1}

\* C9 as stated: on the first _render the ids start at -1 for the first
\* field and decrease along the field sequence.
FirstRenderIdsDecreasing ==
    \A r \in FirstRender :
        /\ r.field = 1 => r.id = -1
        /\ \A q \in FirstRender : q.field > r.field => q.id < r.id

\* C9 amended: on the first _render the ids start at -1 for the first field
\* and increase along the field sequence.
FirstRenderIdsIncreasing ==
    \A r \in FirstRender :
        /\ r.field = 1 => r.id = -1
        /\ \A q \in FirstRender : q.field > r.field => q.id > r.id

\* C9 witness: the first _render has handed ids to two fields.
FirstRenderIdsWitness ==
    /\ \E r \in FirstRender : r.field = 1 /\ r.id = -1
    /\ \E r \in FirstRender : r.field = 2

\* C10: no two invocations of renderFromField on one QuickRoll receive the
\* same id, however the _render calls follow or overlap each other.
IdsDistinct ==
    \A r, q \in renderLog : r # q => r.id # q.id

\* C10 witness: two overlapping calls have both rendered the first field and
\* one of them the second.
IdsDistinctWitness ==
    /\ \E r, q \in renderLog : r.call # q.call /\ r.field = 1 /\ q.field = 1
    /\ \E r \in renderLog : r.field = 2
    /\ calls[1].pc = "awaitRender"
    /\ calls[2].pc = "awaitRender"

\* The id handed to the render of field k by call c.
RenderIdOf(c, k) == (CHOOSE r \in renderLog : r.call = c /\ r.field = k).id

\* The render of field k by call c has completed: its fragment is in
\* templates.
RenderCompleted(c, k) ==
    \E i \in DOMAIN templates :
        templates[i] = [field |-> k, id |-> RenderIdOf(c, k)]

\* C11: fields render in their input order, one at a time.  A _render has
\* started the render of a field only after the renders of all earlier
\* fields have completed, it has at most one render outstanding, and once
\* a single _render on a fresh QuickRoll has completed, templates has one
\* entry per field, the i-th being the fragment rendered for fields[i].
RendersInFieldOrder ==
    /\ \A r \in renderLog :
          \A k \in 1..(r.field - 1) :
              /\ \E q \in renderLog : q.call = r.call /\ q.field = k
              /\ RenderCompleted(r.call, k)
    /\ \A c \in Calls :
          Cardinality({r \in renderLog : r.call = c /\ ~RenderCompleted(c, r.field)}) <= 1
    /\ (/\ calls[1].renderHooks = 1
        /\ \A r \in renderLog : r.call = 1)
          => /\ Len(templates) = Len(fields)
             /\ \A i \in DOMAIN fields :
                   templates[i] = [field |-> i, id |-> RenderIdOf(1, i)]

\* C11 witness: the first _render of a card of at least two fields has
\* completed and no other call has rendered.
RendersInFieldOrderWitness ==
    /\ calls[1].renderHooks = 1
    /\ \A r \in renderLog : r.call = 1
    /\ Len(fields) >= 2
    /\ Len(templates) = Len(fields)
    /\ templates[2].field = 2

\* C12: within one toMessage call the field renders come first, then the
\* render hook, then the chat-message hook with the draft chat data, then
\* persistence.  The render hook has fired only when no render of the call
\* is outstanding; the chat-message hook fires at most once, after the render
\* hook, with a draft built from the rendered templates; a call is waiting
\* on, or past, persistence only after its chat-message hook; and a
\* persisted message holds the draft as the hook's observers left it.
ToMessageEventOrder ==
    \A c \in Calls :
        calls[c].entry = "toMessage"
          => LET rec == calls[c] IN
             /\ rec.renderHooks <= 1
             /\ rec.chatHooks <= 1
             /\ rec.renderHooks = 1
                  => \A r \in renderLog : r.call = c => RenderCompleted(c, r.field)
             /\ rec.chatHooks = 1
                  => /\ rec.renderHooks = 1
                     /\ rec.draft # <<>>
                     /\ rec.draft[1].content = templates
             /\ rec.pc \in {"awaitChatHook", "awaitCreate", "done"} => rec.chatHooks = 1
             /\ rec.pc \in {"awaitRender", "awaitRenderHook"} => rec.chatHooks = 0
             /\ \A i \in MessagesBy(messages, c) :
                   /\ rec.chatHooks = 1
                   /\ messages[i].data = rec.draft

\* C12 witness: a toMessage call has rendered two fields and persisted a
\* message whose data an observer of the chat-message hook had changed.
ToMessageEventOrderWitness ==
    \E c \in Calls :
        /\ calls[c].entry = "toMessage"
        /\ calls[c].pc = "done"
        /\ calls[c].chatHooks = 1
        /\ \E r \in renderLog : r.call = c /\ r.field = 2
        /\ \E i \in MessagesBy(messages, c) : messages[i].data[1].touched

\* C13: an actor wrapper whose ignore flag is true returns the roll it got
\* from the original or from rollActorWrapper and invokes no quick-roll
\* routine; with ignore false it invokes, once, the quick-roll routine named
\* after the intercepted method, with the same caller, the same id and that
\* roll, and returns its result.
ActorReturnsRollOrQuickRoll ==
    (lastCall.method \in ActorMethods /\ ~lastCall.threw)
        => LET roll == lastCall.calls[1] IN
           /\ roll.by \in {"original", "rollActorWrapper"}
           /\ roll.caller = lastCall.caller
           /\ roll.id = lastCall.id
           /\ IF Truthy(lastCall.ignore)
              THEN /\ Len(lastCall.calls) = 1
                   /\ lastCall.result = roll
              ELSE /\ Len(lastCall.calls) = 2
                   /\ lastCall.calls[2].by = lastCall.method
                   /\ lastCall.calls[2].caller = lastCall.caller
                   /\ lastCall.calls[2].id = lastCall.id
                   /\ lastCall.calls[2].roll = <<roll>>
                   /\ lastCall.result = lastCall.calls[2]

\* C13 witness: a saving throw rolled without Alt went through
\* rollActorWrapper and then the rollAbilitySave quick roll.
ActorReturnsRollOrQuickRollWitness ==
    /\ lastCall.method = "rollAbilitySave"
    /\ lastCall.ignore = "false"
    /\ Len(lastCall.calls) = 2
    /\ lastCall.calls[1].by = "rollActorWrapper"
    /\ lastCall.result.by = "rollAbilitySave"

\* The caller's options hold an event key (whatever its value).
SuppliesEvent(o) == o.kind = "object" /\ o.event.kind # "absent"

\* C14: in item use, the options that the dispatch decision sees and that
\* are passed to the original, to the alternate-roll predicate and to
\* rollItemWrapper are the caller's options with window.event filled in
\* only when the caller's options hold no event key.  An event key of the
\* caller wins over window.event, chatMessage and vanilla are kept as given,
\* and without an event key of the caller the Alt decision is taken from
\* window.event.
ItemUseMergesEventUnderOptions ==
    lastCall.method = "use"
        => LET o  == lastCall.options
               ev == IF SuppliesEvent(o) THEN o.event ELSE lastCall.windowEvent
               altHeld == ev.kind = "object" /\ ev.altKey = "true"
           IN  /\ ~lastCall.threw
               /\ Len(lastCall.calls) >= 1
               /\ \A i \in DOMAIN lastCall.calls :
                     /\ lastCall.calls[i].options.kind = "object"
                     /\ lastCall.calls[i].options.event = ev
                     /\ lastCall.calls[i].options.chatMessage = ChatMessageOf(o)
                     /\ lastCall.calls[i].options.vanilla = VanillaOf(o)
               /\ lastCall.result.by = IF AsksVanilla(o) THEN "original" ELSE "rollItemWrapper"
               /\ ~AsksVanilla(o) => lastCall.ignore = Bool(altHeld /\ ~lastCall.altRoll)

\* C14 witness: the caller gave options without an event key while Alt was
\* held in the current window event; the item use was ignored on the
\* strength of window.event and the caller's other option was passed on.
ItemUseMergesEventWitness ==
    /\ lastCall.method = "use"
    /\ lastCall.options.kind = "object"
    /\ lastCall.options.event.kind = "absent"
    /\ lastCall.options.chatMessage = "true"
    /\ lastCall.windowEvent.altKey = "true"
    /\ lastCall.ignore = "true"
    /\ lastCall.result.by = "rollItemWrapper"
    /\ lastCall.result.options.event.origin = "window"
    /\ lastCall.result.options.chatMessage = "true"

\* C15: a rejection of renderFromField during toMessage leaves toMessage as
\* that rejection and nothing more is done for the call.  The call ends
\* failed at the step that rejects and stays as it is; no field was
\* rendered twice for it; neither the render hook nor the chat-message hook
\* has fired for it; it has persisted no message; and neither the rejecting
\* step nor any other step but the creation of a message by a call that
\* returns it changes messageId.
RenderFailurePropagates ==
    [][/\ \A c \in Calls :
             (calls'[c].entry = "toMessage" /\ calls'[c].result.kind = "renderError")
               => /\ calls'[c].pc = "failed"
                  /\ calls'[c].renderHooks = 0
                  /\ calls'[c].chatHooks = 0
                  /\ MessagesBy(messages', c) = {}
                  /\ \A k \in 1..Len(fields) :
                        Cardinality({r \in renderLog' : r.call = c /\ r.field = k}) <= 1
                  /\ IF calls[c].result.kind = "renderError"
                     THEN calls'[c] = calls[c]
                     ELSE /\ calls[c].pc = "awaitRender"
                          /\ messageId' = messageId
                          /\ messages' = messages
       /\ messageId' # messageId
             => \E d \in Calls : /\ calls[d].pc = "awaitCreate"
                                 /\ calls'[d].result.kind = "message"
                                 /\ calls'[d].result.id = messageId'
      ]_vars

\* C15 witness: a toMessage call failed on the render of its second field
\* after an overlapping call had persisted a message; messageId is still
\* that message's id.
RenderFailureWitness ==
    /\ calls[2].entry = "toMessage"
    /\ calls[2].result.kind = "renderError"
    /\ calls[2].idx = 2
    /\ calls[1].result.kind = "message"
    /\ messageId = calls[1].result.id
    /\ Len(messages) = 1

\* C16: a QuickRoll is consumed once.  Over any sequence of toMessage calls
\* on it at most one chat message is persisted, and messageId, once set,
\* never changes.
ConsumedOnce ==
    [][/\ Len(messages') <= 1
       /\ messageId # 0 => messageId' = messageId]_vars

----------------------------------------------------------------------------
(* Properties of the QuickRoll parameters, checked under SpecParams        *)

\* The primitive keys of defaultParams that the callers of the model override.
OverriddenKeys == {"label", "forceCrit"}

\* C17: defaultParams is never changed.  Whatever QuickRolls have been
\* constructed, with whatever params, and whatever has been written to
\* their params since, defaultParams and its useCharge hold what they held
\* when the module was loaded, no QuickRoll's params or useCharge is the
\* object of defaultParams, and the params of a QuickRoll just constructed
\* are those initial values with the keys the caller gave in their place.
DefaultParamsNeverChanged ==
    /\ paramObjects[1] = defaultParams
    /\ chargeObjects[1] = {}
    /\ \A r \in DOMAIN rolls :
          /\ rolls[r].params # 1
          /\ paramObjects[rolls[r].params].useCharge # 1
    /\ lastParams # <<>>
          => LET given == lastParams[1]
                 isObj == given.kind = "object"
                 p     == paramObjects[rolls[Len(rolls)].params]
             IN  /\ \A k \in DOMAIN defaultParams \ (OverriddenKeys \cup {"useCharge"}) :
                       p[k] = defaultParams[k]
                 /\ p.label = IF isObj /\ given.label # "absent"
                              THEN given.label ELSE defaultParams.label
                 /\ p.forceCrit = IF isObj /\ given.forceCrit # "absent"
                                  THEN given.forceCrit ELSE defaultParams.forceCrit
                 /\ chargeObjects[p.useCharge] =
                       IF isObj /\ given.useCharge.present
                       THEN given.useCharge.keys ELSE {}

\* C17 witness: the params and the useCharge of a first QuickRoll were
\* written to, and a second QuickRoll has just been constructed with a label
\* of its own: it has that label and the default forceCrit and useCharge.
DefaultParamsWitness ==
    /\ Len(rolls) = 2
    /\ paramObjects[rolls[1].params].forceCrit = "true"
    /\ chargeObjects[paramObjects[rolls[1].params].useCharge] = {"value", "quantity"}
    /\ lastParams # <<>>
    /\ lastParams[1].kind = "object"
    /\ lastParams[1].label = "Attack"
    /\ lastParams[1].forceCrit = "absent"
    /\ paramObjects[rolls[2].params].label = "Attack"
    /\ paramObjects[rolls[2].params].forceCrit = "false"

----------------------------------------------------------------------------
(* Frame of _getFlags, checked under SpecSequential                        *)

\* C18: _getFlags changes nothing in the QuickRoll.  No step changes
\* fields, nested formula objects included; a _getFlags call (the one step
\* that leaves every toMessage/_render call where it is) leaves templates,
\* processed, the id counter and messageId as they were; and a _getFlags
\* call that follows another returns flags equal to those the earlier call
\* returned.
GetFlagsChangesNothing ==
    [][/\ fields' = fields
       /\ calls' = calls
             => /\ templates' = templates
                /\ processed' = processed
                /\ currentId' = currentId
                /\ messageId' = messageId
                /\ flags # <<>> => flags' = flags
      ]_vars

\* C18 witness: _getFlags was called after the card was rendered and
\* returned the first field's formula flattened to its string, while the
\* field itself still holds the Roll.
GetFlagsWitness ==
    /\ processed
    /\ Len(templates) >= 1
    /\ currentId >= 0
    /\ flags # <<>>
    /\ flags[1].rsr5e.fields[1].payload.formula = [kind |-> "string", str |-> "2d6+3"]
    /\ fields[1].payload.formula = [kind |-> "roll", str |-> "2d6+3"]

====
